---- MODULE Spec2Model ----
(***************************************************************************)
(* The message codec (src/src/messages.rs) and the HTTP relay around the   *)
(* redis list "messages" (src/src/http.rs, src/src/main.rs).               *)
(*                                                                         *)
(* A Rust String is a sequence of one-character strings, so that split,    *)
(* replace, base64 validation and number parsing work on the characters.   *)
(* A Result<T, String> is a record [ok, val, msg, arg]: msg is the format  *)
(* string of the error and arg the value interpolated into it.             *)
(***************************************************************************)
EXTENDS Integers, Sequences, FiniteSets, TLC

VARIABLES
    canonical_padding, \* whether the linked base64 crate's decode() requires canonical '=' padding
    messages,          \* the redis list "messages"
    pc,                \* per server process: "down", "migrating" (between the two commands
                       \* of run_migration_if_needed) or "serving"
    req,               \* the request the last handler run served
    resp,              \* the response it produced
    op,                \* codec harness: the codec function applied last
    arg,               \* codec harness: its input
    res,               \* codec harness: its result
    migration_messages, \* per server process: what run_migration_if_needed's lrange returned
    db,                \* per server process: the call holding the guard of Session.db, or 0
    calls              \* per call of Svc::call: its position and its locals

vars ==
    << canonical_padding, messages, pc, req, resp, op, arg, res, migration_messages, db, calls >>

---------------------------------------------------------------------------
(* Strings *)

\* n repetitions of character c
Rep(c, n) == [i \in 1..n |-> c]

Min(S) == CHOOSE x \in S : \A y \in S : x <= y

Max(S) == CHOOSE x \in S : \A y \in S : x >= y

\* str::split(d): the pieces between occurrences of d; always at least one piece
Split(s, d) ==
    LET Cut(hits) ==
            LET n == Cardinality(hits)
                Nth(k) == CHOOSE p \in hits : Cardinality({q \in hits : q <= p}) = k
            IN  [k \in 1..(n + 1) |->
                    SubSeq(s, IF k = 1 THEN 1 ELSE Nth(k - 1) + 1,
                              IF k = n + 1 THEN Len(s) ELSE Nth(k) - 1)]
    IN  Cut({i \in 1..Len(s) : s[i] = d})

\* str::replace(from, to) for single characters
Replace(s, from, to) == [i \in 1..Len(s) |-> IF s[i] = from THEN to ELSE s[i]]

\* str::contains(c)
Contains(s, c) == \E i \in 1..Len(s) : s[i] = c

\* the pieces joined again, with no separator
Concat(ss) ==
    LET upto[i \in 0..Len(ss)] == IF i = 0 THEN << >> ELSE upto[i - 1] \o ss[i]
    IN  upto[Len(ss)]

Ok(v) == [ok |-> TRUE, val |-> v, msg |-> "", arg |-> << >>]
Err(m, a) == [ok |-> FALSE, val |-> << >>, msg |-> m, arg |-> a]

---------------------------------------------------------------------------
(* base64::decode, as far as its success is concerned *)

B64Alphabet == <<
    "A", "B", "C", "D", "E", "F", "G", "H", "I", "J", "K", "L", "M", "N", "O", "P",
    "Q", "R", "S", "T", "U", "V", "W", "X", "Y", "Z", "a", "b", "c", "d", "e", "f",
    "g", "h", "i", "j", "k", "l", "m", "n", "o", "p", "q", "r", "s", "t", "u", "v",
    "w", "x", "y", "z", "0", "1", "2", "3", "4", "5", "6", "7", "8", "9", "+", "/" >>

B64Value(c) == (CHOOSE i \in 1..64 : B64Alphabet[i] = c) - 1

B64Chars == {B64Alphabet[i] : i \in 1..64}

IsB64Char(c) == c \in B64Chars

\* number of trailing '=' characters
TrailingPad(s) ==
    LET Count(other) == IF other = {} THEN Len(s) ELSE Len(s) - Max(other)
    IN  Count({i \in 1..Len(s) : s[i] # "="})

\* Whether base64::decode(s) is Ok. Every symbol is in the standard alphabet,
\* the symbol count is not 1 mod 4, the unused bits of the last symbol are
\* zero, and the padding is canonical; a crate older than 0.20 also accepts
\* the input with its padding left out.
B64Decodes(s) ==
    LET Padded(p) ==
            LET n == Len(s) - p
                want == (4 - (n % 4)) % 4
            IN  /\ \A i \in 1..n : IsB64Char(s[i])
                /\ n % 4 # 1
                /\ n % 4 = 2 => B64Value(s[n]) % 16 = 0
                /\ n % 4 = 3 => B64Value(s[n]) % 4 = 0
                /\ p <= 2
                /\ \/ p = want
                   \/ ~canonical_padding /\ p = 0
    IN  Padded(TrailingPad(s))

---------------------------------------------------------------------------
(* Integers: str::parse::<u64>() and Display of an integer *)

Digits == << "0", "1", "2", "3", "4", "5", "6", "7", "8", "9" >>

IsDigit(c) == c \in {"0", "1", "2", "3", "4", "5", "6", "7", "8", "9"}

DigitValue(c) == (CHOOSE i \in 1..10 : Digits[i] = c) - 1

AllDigits(s) == \A i \in 1..Len(s) : IsDigit(s[i])

\* a digit string without its leading zeros (the empty string for zero)
StripZeros(s) ==
    LET From(nz) == IF nz = {} THEN << >> ELSE SubSeq(s, Min(nz), Len(s))
    IN  From({i \in 1..Len(s) : s[i] # "0"})

\* a digit string without its trailing zeros
StripTrailingZeros(s) ==
    LET To(nz) == IF nz = {} THEN << >> ELSE SubSeq(s, 1, Max(nz))
    IN  To({i \in 1..Len(s) : s[i] # "0"})

\* a < b for digit strings of the same length
DigitsLess(a, b) ==
    LET At(diff) == diff # {} /\ DigitValue(a[Min(diff)]) < DigitValue(b[Min(diff)])
    IN  At({i \in 1..Len(a) : a[i] # b[i]})

\* u64::MAX = 18446744073709551615
U64MaxDigits ==
    << "1", "8", "4", "4", "6", "7", "4", "4", "0", "7",
       "3", "7", "0", "9", "5", "5", "1", "6", "1", "5" >>

\* Display of a natural number
RECURSIVE FmtNat(_)
FmtNat(n) == IF n < 10 THEN << Digits[n + 1] >> ELSE FmtNat(n \div 10) \o << Digits[(n % 10) + 1] >>

\* str::parse::<u64>(): an optional '+', then one or more digits, no overflow.
\* The value is kept as its decimal numeral, which is also its Display.
ParseU64(s) ==
    LET Unsigned(d) ==
            LET Value(n) ==
                    IF Len(n) > 20 \/ (Len(n) = 20 /\ DigitsLess(U64MaxDigits, n))
                    THEN Err("overflow", s)
                    ELSE Ok(IF n = << >> THEN << "0" >> ELSE n)
            IN  IF d = << >> \/ ~AllDigits(d) THEN Err("invalid digit", s)
                ELSE Value(StripZeros(d))
    IN  Unsigned(IF s # << >> /\ Head(s) = "+" THEN Tail(s) ELSE s)


---------------------------------------------------------------------------
(* 64-bit floats: str::parse::<f64>() and Display.                         *)
(* A finite value is kept as the decimal numeral Display prints for it:    *)
(* ip the integer digits without leading zeros, fp the fraction digits     *)
(* without trailing zeros. This is exact for the shortest round-trip       *)
(* numeral of a float, which every numeral of at most 15 significant       *)
(* digits is.                                                              *)

NaN == [k |-> "nan", neg |-> FALSE, ip |-> << >>, fp |-> << >>]
Inf(neg) == [k |-> "inf", neg |-> neg, ip |-> << >>, fp |-> << >>]
Fin(neg, ip, fp) == [k |-> "fin", neg |-> neg, ip |-> ip, fp |-> fp]

\* f64::INFINITY
INFINITY == Inf(FALSE)

\* f64::MAX = 1.7976931348623157e308
F64_MAX ==
    Fin(FALSE,
        << "1", "7", "9", "7", "6", "9", "3", "1", "3", "4", "8", "6", "2", "3", "1", "5", "7" >>
            \o Rep("0", 292),
        << >>)

\* 2^1024 - 2^970, the least integer that rounds to infinity
F64RoundsToInf == <<
    "1", "7", "9", "7", "6", "9", "3", "1", "3", "4", "8", "6", "2", "3", "1", "5", "8", "0", "7", "9", "3", "7", "2", "8", "9",
    "7", "1", "4", "0", "5", "3", "0", "3", "4", "1", "5", "0", "7", "9", "9", "3", "4", "1", "3", "2", "7", "1", "0", "0", "3",
    "7", "8", "2", "6", "9", "3", "6", "1", "7", "3", "7", "7", "8", "9", "8", "0", "4", "4", "4", "9", "6", "8", "2", "9", "2",
    "7", "6", "4", "7", "5", "0", "9", "4", "6", "6", "4", "9", "0", "1", "7", "9", "7", "7", "5", "8", "7", "2", "0", "7", "0",
    "9", "6", "3", "3", "0", "2", "8", "6", "4", "1", "6", "6", "9", "2", "8", "8", "7", "9", "1", "0", "9", "4", "6", "5", "5",
    "5", "5", "4", "7", "8", "5", "1", "9", "4", "0", "4", "0", "2", "6", "3", "0", "6", "5", "7", "4", "8", "8", "6", "7", "1",
    "5", "0", "5", "8", "2", "0", "6", "8", "1", "9", "0", "8", "9", "0", "2", "0", "0", "0", "7", "0", "8", "3", "8", "3", "6",
    "7", "6", "2", "7", "3", "8", "5", "4", "8", "4", "5", "8", "1", "7", "7", "1", "1", "5", "3", "1", "7", "6", "4", "4", "7",
    "5", "7", "3", "0", "2", "7", "0", "0", "6", "9", "8", "5", "5", "5", "7", "1", "3", "6", "6", "9", "5", "9", "6", "2", "2",
    "8", "4", "2", "9", "1", "4", "8", "1", "9", "8", "6", "0", "8", "3", "4", "9", "3", "6", "4", "7", "5", "2", "9", "2", "7",
    "1", "9", "0", "7", "4", "1", "6", "8", "4", "4", "4", "3", "6", "5", "5", "1", "0", "7", "0", "4", "3", "4", "2", "7", "1",
    "1", "5", "5", "9", "6", "9", "9", "5", "0", "8", "0", "9", "3", "0", "4", "2", "8", "8", "0", "1", "7", "7", "9", "0", "4",
    "1", "7", "4", "4", "9", "7", "7", "9", "2" >>

\* largest magnitude of a decimal exponent the model shifts by; every larger
\* one gives the same result (infinity or zero) for the mantissas used
ExpCap == 400

LowerCase(c) ==
    CASE c = "I" -> "i" [] c = "N" -> "n" [] c = "F" -> "f" [] c = "T" -> "t"
      [] c = "Y" -> "y" [] c = "A" -> "a" [] c = "E" -> "e" [] OTHER -> c

Lower(s) == [i \in 1..Len(s) |-> LowerCase(s[i])]

\* value of a short digit string, saturated at ExpCap
NatOf(d) ==
    LET v[i \in 0..Len(d)] == IF i = 0 THEN 0 ELSE Min({ExpCap, 10 * v[i - 1] + DigitValue(d[i])})
    IN  v[Len(d)]

\* the value with integer digits i and fraction digits f, rounded into the
\* range of f64: infinity from 2^1024 - 2^970 on, zero below the subnormals
RoundF64(neg, i, f) ==
    IF Len(i) > 309 \/ (Len(i) = 309 /\ ~DigitsLess(i, F64RoundsToInf)) THEN Inf(neg)
    ELSE IF i = << >> /\ Len(f) - Len(StripZeros(f)) >= 324 THEN Fin(neg, << >>, << >>)
    ELSE Fin(neg, i, StripTrailingZeros(f))

\* the mantissa ip.fp times 10^e: the decimal point moved by e places
ScaleF64(neg, ip, fp, e) ==
    LET r == Min({e, Len(fp)})
        l == Min({0 - e, Len(ip)})
    IN  RoundF64(neg,
                 StripZeros(IF e >= 0 THEN ip \o SubSeq(fp, 1, r) \o Rep("0", e - r)
                            ELSE SubSeq(ip, 1, Len(ip) - l)),
                 IF e >= 0 THEN SubSeq(fp, r + 1, Len(fp))
                 ELSE Rep("0", (0 - e) - l) \o SubSeq(ip, Len(ip) - l + 1, Len(ip)) \o fp)

\* digits [. digits] with at least one digit, times 10^e
ParseDecimal(s, neg, mant, e) ==
    LET dots == {i \in 1..Len(mant) : mant[i] = "."}
        ip == IF dots = {} THEN mant ELSE SubSeq(mant, 1, Min(dots) - 1)
        fp == IF dots = {} THEN << >> ELSE SubSeq(mant, Min(dots) + 1, Len(mant))
    IN  IF ~AllDigits(ip) \/ ~AllDigits(fp) \/ Len(ip) + Len(fp) = 0
        THEN Err("invalid float literal", s)
        ELSE Ok(ScaleF64(neg, ip, fp, e))

\* the exponent [sign] digits of a float literal
ParseExponent(etxt) ==
    LET edig == IF etxt # << >> /\ Head(etxt) \in {"+", "-"} THEN Tail(etxt) ELSE etxt
    IN  IF edig = << >> \/ ~AllDigits(edig) THEN Err("invalid float literal", etxt)
        ELSE IF Head(etxt) = "-" THEN Ok(0 - NatOf(edig))
        ELSE Ok(NatOf(edig))

\* mantissa [e exponent], the letter e at one of the positions epos
ParseNumber(s, neg, body, epos) ==
    LET Scaled(e) ==
            IF ~e.ok THEN Err("invalid float literal", s)
            ELSE ParseDecimal(s, neg,
                              IF epos = {} THEN body ELSE SubSeq(body, 1, Min(epos) - 1),
                              e.val)
    IN  Scaled(IF epos = {} THEN Ok(0)
               ELSE ParseExponent(SubSeq(body, Min(epos) + 1, Len(body))))

\* the literal after its sign
ParseUnsigned(s, neg, body) ==
    IF body = << "i", "n", "f" >> \/ body = << "i", "n", "f", "i", "n", "i", "t", "y" >>
    THEN Ok(Inf(neg))
    ELSE IF body = << "n", "a", "n" >> THEN Ok(NaN)
    ELSE ParseNumber(s, neg, body, {i \in 1..Len(body) : body[i] = "e"})

\* str::parse::<f64>(): [sign] (inf | infinity | nan | digits [. digits] [e [sign] digits]),
\* letters in either case, at least one mantissa digit
ParseF64(s) ==
    ParseUnsigned(s, s # << >> /\ Head(s) = "-",
                  Lower(IF s # << >> /\ Head(s) \in {"+", "-"} THEN Tail(s) ELSE s))

\* Display of an f64
FmtF64(x) ==
    IF x.k = "nan" THEN << "N", "a", "N" >>
    ELSE (IF x.neg THEN << "-" >> ELSE << >>)
         \o (IF x.k = "inf" THEN << "i", "n", "f" >>
             ELSE (IF x.ip = << >> THEN << "0" >> ELSE x.ip)
                  \o (IF x.fp = << >> THEN << >> ELSE << "." >> \o x.fp))

\* x <= 0.0
F64LeZero(x) ==
    CASE x.k = "nan" -> FALSE
      [] x.k = "inf" -> x.neg
      [] OTHER -> x.neg \/ (x.ip = << >> /\ x.fp = << >>)

\* x == y (a NaN equals nothing, and -0.0 equals 0.0)
F64Eq(x, y) ==
    /\ x.k # "nan" /\ y.k # "nan"
    /\ x.k = y.k /\ x.ip = y.ip /\ x.fp = y.fp
    /\ x.neg = y.neg \/ (x.k = "fin" /\ x.ip = << >> /\ x.fp = << >>)

---------------------------------------------------------------------------
(* Move *)

\* the length every public key must have
KeyLen == 116

\* the length every signature must have
SigLen == 88

Move(from, amount) == [from |-> from, amount |-> amount]

\* impl FromStr for Move
MoveFromStr(s) ==
    LET Parts(split) ==
            LET Checked(from, amount) ==
                    IF ~B64Decodes(from) THEN Err("Recipient public key ({}) is not base64", from)
                    ELSE IF Len(from) # KeyLen
                    THEN Err("Recipient public key ({}) is an invalid key", from)
                    ELSE IF ~amount.ok THEN Err("Amount is not a number", << >>)
                    ELSE IF F64LeZero(amount.val) THEN Err("Amount must be positive", << >>)
                    ELSE IF F64Eq(amount.val, INFINITY) THEN Err("Amount is too big", << >>)
                    ELSE Ok(Move(from, amount.val))
            IN  IF Len(split) # 2 THEN Err("Move has more than two parts", << >>)
                ELSE Checked(split[1], ParseF64(split[2]))
    IN  Parts(Split(s, ","))

\* Display for Move without the substitution for infinity
MoveToString_NoClamp(m) == m.from \o << "," >> \o FmtF64(m.amount)

\* Display for Move with the two fields in the other order
MoveToString_AmountFirst(m) ==
    FmtF64(IF F64Eq(m.amount, INFINITY) THEN F64_MAX ELSE m.amount) \o << "," >> \o m.from

\* impl Display for Move
MoveToString(m) ==
    m.from \o << "," >> \o FmtF64(IF F64Eq(m.amount, INFINITY) THEN F64_MAX ELSE m.amount)

---------------------------------------------------------------------------
(* Transaction, NewTransaction *)

TagTransaction == << "t", "r", "a", "n", "s", "a", "c", "t", "i", "o", "n" >>
TagBlock == << "b", "l", "o", "c", "k" >>

Transaction(serial, unique_string, sig, sender, moves) ==
    [serial |-> serial, unique_string |-> unique_string, sig |-> sig,
     sender |-> sender, moves |-> moves]

NewTransaction(unique_string, sig, sender, moves) ==
    [unique_string |-> unique_string, sig |-> sig, sender |-> sender, moves |-> moves]

\* the loop shared by the encoders: every item, and sep after each but the last
JoinItems(items, sep) ==
    Concat([i \in 1..Len(items) |->
                items[i] \o (IF i - 1 # Len(items) - 1 THEN sep ELSE << >>)])

\* Transaction::help_fmt
help_fmt(t, sep) ==
    t.serial \o sep
      \o TagTransaction \o sep
      \o t.unique_string \o sep
      \o t.sig \o sep
      \o t.sender \o sep
      \o JoinItems([i \in 1..Len(t.moves) |-> MoveToString(t.moves[i])], sep)

\* impl Display for Transaction
TransactionToString(t) == help_fmt(t, << ":" >>)

\* impl Display for NewTransaction
NewTransactionToString(t) ==
    TagTransaction \o << ":" >>
      \o t.unique_string \o << ":" >>
      \o t.sig \o << ":" >>
      \o t.sender \o << ":" >>
      \o JoinItems([i \in 1..Len(t.moves) |-> MoveToString(t.moves[i])], << ":" >>)

\* .map(|x| x.parse::<Move>()).collect::<Result<Vec<Move>, String>>(): the
\* moves in order, or the error of the first one that fails
CollectMoves(parts) ==
    LET Collected(results) ==
            LET First(bad) ==
                    IF bad = {} THEN Ok([i \in 1..Len(results) |-> results[i].val])
                    ELSE results[Min(bad)]
            IN  First({i \in 1..Len(results) : ~results[i].ok})
    IN  Collected([i \in 1..Len(parts) |-> MoveFromStr(parts[i])])

\* FromStr for Transaction with the signature checked before the unique string
TransactionFromStr_SigFirst(s) ==
    LET Parts(split) ==
            LET Checked(serial, unique_string, sig, sender, moves) ==
                    IF ~serial.ok THEN Err("Serial is not a number", << >>)
                    ELSE IF split[2] # TagTransaction
                    THEN Err("Second part is not transaction", << >>)
                    ELSE IF ~B64Decodes(sig) THEN Err("Signature is not base64", << >>)
                    ELSE IF Len(sig) # SigLen THEN Err("Signature has an invalid length", << >>)
                    ELSE IF ~B64Decodes(unique_string) THEN Err("Unique string is not base64", << >>)
                    ELSE IF unique_string = << >> THEN Err("Unique string is too short", << >>)
                    ELSE IF ~B64Decodes(sender)
                    THEN Err("Sender public key ({}) is not base64", sender)
                    ELSE IF Len(sender) # KeyLen
                    THEN Err("Sender public key ({}) is an invalid key", sender)
                    ELSE IF ~moves.ok THEN moves
                    ELSE Ok(Transaction(serial.val, unique_string, sig, sender, moves.val))
            IN  IF Len(split) < 5 THEN Err("Transaction has less than five parts", << >>)
                ELSE Checked(ParseU64(split[1]), split[3], split[4], split[5],
                             CollectMoves(SubSeq(split, 6, Len(split))))
    IN  Parts(Split(s, ":"))

\* impl FromStr for Transaction
TransactionFromStr(s) ==
    LET Parts(split) ==
            LET Checked(serial, unique_string, sig, sender, moves) ==
                    IF ~serial.ok THEN Err("Serial is not a number", << >>)
                    ELSE IF split[2] # TagTransaction
                    THEN Err("Second part is not transaction", << >>)
                    ELSE IF ~B64Decodes(unique_string) THEN Err("Unique string is not base64", << >>)
                    ELSE IF unique_string = << >> THEN Err("Unique string is too short", << >>)
                    ELSE IF ~B64Decodes(sig) THEN Err("Signature is not base64", << >>)
                    ELSE IF Len(sig) # SigLen THEN Err("Signature has an invalid length", << >>)
                    ELSE IF ~B64Decodes(sender)
                    THEN Err("Sender public key ({}) is not base64", sender)
                    ELSE IF Len(sender) # KeyLen
                    THEN Err("Sender public key ({}) is an invalid key", sender)
                    ELSE IF ~moves.ok THEN moves
                    ELSE Ok(Transaction(serial.val, unique_string, sig, sender, moves.val))
            IN  IF Len(split) < 5 THEN Err("Transaction has less than five parts", << >>)
                ELSE Checked(ParseU64(split[1]), split[3], split[4], split[5],
                             CollectMoves(SubSeq(split, 6, Len(split))))
    IN  Parts(Split(s, ":"))

\* impl FromStr for NewTransaction
NewTransactionFromStr(s) ==
    LET Parts(split) ==
            LET Checked(unique_string, sig, sender, moves) ==
                    IF split[1] # TagTransaction THEN Err("First part is not transaction", << >>)
                    ELSE IF ~B64Decodes(unique_string) THEN Err("Unique string is not base64", << >>)
                    ELSE IF unique_string = << >> THEN Err("Unique string is too short", << >>)
                    ELSE IF ~B64Decodes(sig) THEN Err("Signature is not base64", << >>)
                    ELSE IF Len(sig) # SigLen THEN Err("Signature has an invalid length", << >>)
                    ELSE IF ~B64Decodes(sender)
                    THEN Err("Sender public key ({}) is not base64", sender)
                    ELSE IF Len(sender) # KeyLen
                    THEN Err("Sender public key ({}) is an invalid key", sender)
                    ELSE IF ~moves.ok THEN moves
                    ELSE Ok(NewTransaction(unique_string, sig, sender, moves.val))
            IN  IF Len(split) < 4 THEN Err("Transaction has less than four parts", << >>)
                ELSE Checked(split[2], split[3], split[4],
                             CollectMoves(SubSeq(split, 5, Len(split))))
    IN  Parts(Split(s, ":"))

---------------------------------------------------------------------------
(* Block, NewBlock *)

NewBlock(transactions, nonce, miner_account) ==
    [transactions |-> transactions, nonce |-> nonce, miner_account |-> miner_account]

Block(serial, transactions, nonce, miner_account) ==
    [serial |-> serial, transactions |-> transactions, nonce |-> nonce,
     miner_account |-> miner_account]

\* the miner account of the genesis block
GenesisAccount ==
    <<
    "A", "A", "A", "A", "B", "3", "N", "z", "a", "C", "1", "y", "c", "2", "E", "A", "A", "A", "A", "D",
    "A", "Q", "A", "B", "A", "A", "A", "A", "Q", "Q", "D", "b", "X", "z", "4", "r", "f", "b", "r", "R",
    "r", "X", "Y", "Q", "J", "b", "w", "u", "C" >>
      \o <<
    "k", "I", "y", "I", "s", "c", "c", "H", "R", "p", "x", "h", "x", "q", "x", "g", "K", "e", "n", "e",
    "V", "F", "4", "e", "U", "X", "o", "f", "6", "e", "2", "n", "L", "v", "d", "X", "k", "G", "A", "0",
    "Y", "6", "u", "B", "A", "Q", "6", "N", "7", "q", "K", "x", "a", "s", "V", "T", "R", "/", "2", "s",
    "1", "N", "2", "O", "B", "W", "F" >>

\* NewBlock::genesis
genesis ==
    NewBlock(<< >>, Fin(FALSE, << "1", "3", "3", "7" >>, << >>), GenesisAccount)

\* .map(|x| x.replace(';', ":").parse::<Transaction>()).collect::<Result<Vec<_>, String>>():
\* the transactions in order, or the error of the first one that fails
CollectTransactions(parts) ==
    LET Collected(results) ==
            LET First(bad) ==
                    IF bad = {} THEN Ok([i \in 1..Len(results) |-> results[i].val])
                    ELSE results[Min(bad)]
            IN  First({i \in 1..Len(results) : ~results[i].ok})
    IN  Collected([i \in 1..Len(parts) |-> TransactionFromStr(Replace(parts[i], ";", ":"))])

\* impl FromStr for Block
BlockFromStr(s) ==
    LET Parts(split) ==
            LET Checked(serial, nonce, miner_account, transactions) ==
                    IF ~serial.ok THEN Err("Serial is not a number", << >>)
                    ELSE IF split[2] # TagBlock THEN Err("Second part is not block", << >>)
                    ELSE IF ~nonce.ok THEN Err("Nonce is not a number", << >>)
                    ELSE IF ~B64Decodes(miner_account) THEN Err("Miner account is not base64", << >>)
                    ELSE IF Len(miner_account) # KeyLen
                    THEN Err("Miner account is an invalid key", << >>)
                    ELSE IF ~transactions.ok THEN transactions
                    ELSE Ok(Block(serial.val, transactions.val, nonce.val, miner_account))
            IN  IF Len(split) < 6 THEN Err("Block has less than six parts", << >>)
                ELSE Checked(ParseU64(split[1]), ParseF64(split[3]), split[4],
                             CollectTransactions(SubSeq(split, 5, Len(split))))
    IN  Parts(Split(s, ":"))

\* impl FromStr for NewBlock
NewBlockFromStr(s) ==
    LET Parts(split) ==
            LET Checked(nonce, miner_account, transactions) ==
                    IF split[1] # TagBlock THEN Err("Second part is not block", << >>)
                    ELSE IF ~nonce.ok THEN Err("Nonce is not a number", << >>)
                    ELSE IF ~B64Decodes(miner_account) THEN Err("Miner account is not base64", << >>)
                    ELSE IF Len(miner_account) # KeyLen
                    THEN Err("Miner account is an invalid key", << >>)
                    ELSE IF ~transactions.ok THEN transactions
                    ELSE Ok(NewBlock(transactions.val, nonce.val, miner_account))
            IN  IF Len(split) < 4 THEN Err("Block has less than five parts", << >>)
                ELSE Checked(ParseF64(split[2]), split[3],
                             CollectTransactions(SubSeq(split, 4, Len(split))))
    IN  Parts(Split(s, ":"))

\* impl Display for Block
BlockToString(b) ==
    b.serial \o << ":" >>
      \o TagBlock \o << ":" >>
      \o FmtF64(b.nonce) \o << ":" >>
      \o b.miner_account \o << ":" >>
      \o JoinItems([i \in 1..Len(b.transactions) |-> help_fmt(b.transactions[i], << ";" >>)],
                   << ":" >>)

\* impl Display for NewBlock
NewBlockToString(b) ==
    TagBlock \o << ":" >>
      \o FmtF64(b.nonce) \o << ":" >>
      \o b.miner_account \o << ":" >>
      \o JoinItems([i \in 1..Len(b.transactions) |-> help_fmt(b.transactions[i], << ";" >>)],
                   << ":" >>)

---------------------------------------------------------------------------
(* Message, NewMessage *)

\* a variant of enum Message or enum NewMessage
Variant(tag, body) == [tag |-> tag, body |-> body]

\* Ok(Variant(parsed?)): the parsed record wrapped in its variant, or its error
Wrapped(tag, parsed) == IF parsed.ok THEN Ok(Variant(tag, parsed.val)) ELSE parsed

\* impl FromStr for Message
MessageFromStr(s) ==
    LET Parts(split) ==
            IF Len(split) < 2 THEN Err("Message has less than two parts", << >>)
            ELSE IF split[2] = TagBlock THEN Wrapped("Block", BlockFromStr(s))
            ELSE IF split[2] = TagTransaction THEN Wrapped("Transaction", TransactionFromStr(s))
            ELSE Err("Message is not block or transaction", << >>)
    IN  Parts(Split(s, ":"))

\* impl FromStr for NewMessage
NewMessageFromStr(s) ==
    LET Parts(split) ==
            IF Len(split) < 2 THEN Err("Message has less than two parts", << >>)
            ELSE IF split[1] = TagBlock THEN Wrapped("NewBlock", NewBlockFromStr(s))
            ELSE IF split[1] = TagTransaction
            THEN Wrapped("NewTransaction", NewTransactionFromStr(s))
            ELSE Err("Message is not block or transaction", << >>)
    IN  Parts(Split(s, ":"))

\* impl Display for Message
MessageToString(m) ==
    IF m.tag = "Block" THEN BlockToString(m.body) ELSE TransactionToString(m.body)

\* impl Display for NewMessage
NewMessageToString(m) ==
    IF m.tag = "NewBlock" THEN NewBlockToString(m.body) ELSE NewTransactionToString(m.body)

---------------------------------------------------------------------------
(* The relay: main.rs and http.rs *)

\* the server processes that may be started against the one store
Servers == {"s1", "s2"}

\* largest length the list "messages" grows to
MaxLog == 3

\* lrange("messages", id, id + 200) spans 200 entries past id
PageSpan == 200

\* Response::builder().status(code).body(..): text is a literal body, err a
\* formatted one (pre, then msg with arg interpolated)
Response(code, text, pre, msg, a) ==
    [status |-> code, text |-> text, err |-> [pre |-> pre, msg |-> msg, arg |-> a]]

mk_error(pre, msg, a, code) == Response(code, << >>, pre, msg, a)

mk_response(s) == Response(200, s, "", "", << >>)

Request(method, payload) == [method |-> method, payload |-> payload]

NoRequest == Request("", << >>)

\* redis RPUSH
rpush(list, value) == Append(list, value)

\* redis LRANGE with 0-based inclusive ends, both >= 0
lrange(list, start, stop) ==
    SubSeq(list, start + 1, IF stop + 1 < Len(list) THEN stop + 1 ELSE Len(list))

\* the migration without its emptiness test
run_migration_unconditional(list) == rpush(list, NewBlockToString(genesis))

\* run_migration_if_needed: the list after the call
run_migration_if_needed(list) ==
    IF lrange(list, 0, 1) = << >> THEN rpush(list, NewBlockToString(genesis)) ELSE list

\* the POST branch storing the request body as received instead of the
\* re-encoded message
PostHandler_RawBody(list, message, redis_ok) ==
    LET Decoded(m) ==
            IF ~m.ok
            THEN [messages |-> list, resp |-> mk_error("Error: ", m.msg, m.arg, 400)]
            ELSE IF ~redis_ok
            THEN [messages |-> list,
                  resp |-> mk_error("", "Failed to push message to redis", << >>, 500)]
            ELSE [messages |-> rpush(list, message), resp |-> mk_response(<< >>)]
    IN  IF Contains(message, "\n")
        THEN [messages |-> list,
              resp |-> mk_error("", "Error: Message contains newlines", << >>, 400)]
        ELSE Decoded(NewMessageFromStr(message))

\* the POST branch of Svc::call: the list afterwards and the response.
\* redis_ok says whether the RPUSH pipeline succeeds.
PostHandler(list, message, redis_ok) ==
    LET Decoded(m) ==
            IF ~m.ok
            THEN [messages |-> list, resp |-> mk_error("Error: ", m.msg, m.arg, 400)]
            ELSE IF ~redis_ok
            THEN [messages |-> list,
                  resp |-> mk_error("", "Failed to push message to redis", << >>, 500)]
            ELSE [messages |-> rpush(list, NewMessageToString(m.val)), resp |-> mk_response(<< >>)]
    IN  IF Contains(message, "\n")
        THEN [messages |-> list,
              resp |-> mk_error("", "Error: Message contains newlines", << >>, 400)]
        ELSE Decoded(NewMessageFromStr(message))

\* 2^63 - 1, the largest isize
IsizeMaxDigits ==
    << "9", "2", "2", "3", "3", "7", "2", "0", "3", "6",
       "8", "5", "4", "7", "7", "5", "8", "0", "7" >>

\* value of a digit string
IntOf(d) ==
    LET v[i \in 0..Len(d)] == IF i = 0 THEN 0 ELSE 10 * v[i - 1] + DigitValue(d[i])
    IN  v[Len(d)]

\* str::parse::<isize>(): an optional sign, then one or more digits, no overflow
\* (ids of the model are short, so the value fits a model integer)
ParseIsize(s) ==
    LET Signed(neg, d) ==
            LET Value(n) ==
                    IF Len(n) > 19 \/ (Len(n) = 19 /\ DigitsLess(IsizeMaxDigits, n))
                    THEN Err("overflow", s)
                    ELSE Ok(IF neg THEN 0 - IntOf(n) ELSE IntOf(n))
            IN  IF d = << >> \/ ~AllDigits(d) THEN Err("invalid digit", s)
                ELSE Value(StripZeros(d))
    IN  Signed(s # << >> /\ Head(s) = "-",
               IF s # << >> /\ Head(s) \in {"+", "-"} THEN Tail(s) ELSE s)

\* format!("{}:{}\n", (i as isize) + id, msg)
Line(n, msg) == FmtNat(n) \o << ":" >> \o msg \o << "\n" >>

\* the GET branch of Svc::call: the response. redis_ok says whether LRANGE succeeds.
GetHandler(list, path, redis_ok) ==
    LET Rendered(id, got) ==
            mk_response(Concat([i \in 1..Len(got) |-> Line((i - 1) + id, got[i])]))
        Parsed(n) ==
            IF ~n.ok THEN mk_error("", "Error: Failed to parse id", << >>, 400)
            ELSE IF n.val < 0 THEN mk_error("", "Error: Id must be positive", << >>, 400)
            ELSE IF ~redis_ok THEN mk_error("", "Failed to get messages from redis", << >>, 500)
            ELSE Rendered(n.val, lrange(list, n.val, n.val + PageSpan))
        Last(id) ==
            IF id = << >> THEN mk_error("", "Error: Didn't provide an id", << >>, 500)
            ELSE Parsed(ParseIsize(id))
        Segments(parts) == Last(parts[Len(parts)])
    IN  Segments(Split(path, "/"))

---------------------------------------------------------------------------
(* The texts and records the operations are applied to *)

\* largest number of moves in an encoded transaction
MaxMoves == 2

\* largest number of transactions in an encoded block
MaxTxs == 2

\* the fields joined by the delimiter d
Joined(fields, d) ==
    Concat([i \in 1..Len(fields) |-> IF i = 1 THEN fields[1] ELSE << d >> \o fields[i]])

\* all sequences over S of length at most n
RECURSIVE SeqsUpTo(_, _)
SeqsUpTo(S, n) ==
    IF n = 0 THEN {<< >>}
    ELSE LET shorter == SeqsUpTo(S, n - 1)
         IN  shorter \cup {Append(q, x) : q \in {r \in shorter : Len(r) = n - 1}, x \in S}

KeyA == Rep("A", KeyLen)
KeyB == Rep("B", KeyLen)
KeyShort == Rep("A", KeyLen - 1)
KeyLong == Rep("A", KeyLen + 4)
Sig88 == Rep("A", SigLen)
Zm9v == << "Z", "m", "9", "v" >>
NotBase64 == << "n", "o", "t", "-", "b", "a", "s", "e", "6", "4", "!", "!" >>
TxtSig == << "s", "i", "g" >>
TxtSender == << "s", "e", "n", "d", "e", "r" >>
TxtShort == << "s", "h", "o", "r", "t" >>

AmountTexts ==
    { << "1" >>, << "1", ".", "0" >>, << "2", ".", "0" >>, << "0", ".", "5" >>, << "0" >>, << "-", "1" >>, << "i", "n", "f" >>, << "N", "a", "N" >>, << "a", "b", "c" >>,
      << "1", "e", "4", "0", "0" >>, << "1", "3", "3", "7" >>, F64_MAX.ip, << >> }

RecipientTexts == { KeyA, KeyB, KeyShort, KeyLong, NotBase64, << "a" >>, << "2" >> }

MoveTexts ==
    { k \o << "," >> \o a : k \in RecipientTexts, a \in AmountTexts }
      \cup { KeyB, KeyB \o << ",", "1", ",", "2" >>, << >> }

GoodMove1 == KeyB \o << ",", "1", ".", "0" >>
GoodMove2 == KeyA \o << ",", "0", ".", "5" >>
BadMoveZero == KeyB \o << ",", "0" >>
BadMoveText == KeyB \o << ",", "a", "b", "c" >>

MoveTextLists ==
    { << >>, << GoodMove1 >>, << GoodMove1, GoodMove2 >>, << BadMoveZero >>,
      << GoodMove1, BadMoveText >>, << BadMoveZero, BadMoveText >>, << << >> >> }

SerialTexts == { << "0" >>, << "7" >>, << "x" >> }
TagTexts == { TagTransaction, TagBlock }
UniqueStringTexts == { Zm9v, NotBase64, << >> }
SigTexts == { Sig88, TxtSig, Zm9v }
SenderTexts == { KeyA, TxtSender, KeyLong }

\* the texts parsed by test_transaction_from_str and test_new_transaction_from_str
TestTransactionText == << "0", ":", "t", "r", "a", "n", "s", "a", "c", "t", "i", "o", "n", ":", "Z", "m", "9", "v", ":", "1", ":", "2", ",", "2", ".", "0" >>
TestNewTransactionText == << "t", "r", "a", "n", "s", "a", "c", "t", "i", "o", "n", ":", "Z", "m", "9", "v", ":", "1", ":", "2", ",", "2", ".", "0" >>

NewTransactionTexts ==
    { Joined(<< tag, u, g, s >> \o ms, ":") :
        tag \in TagTexts, u \in UniqueStringTexts, g \in SigTexts, s \in SenderTexts,
        ms \in MoveTextLists }
      \cup { Joined(<< TagTransaction, TxtShort >>, ":"), TagTransaction, << >>,
             TestNewTransactionText }

TransactionTexts ==
    { Joined(<< n >>, ":") \o << ":" >> \o t : n \in SerialTexts, t \in NewTransactionTexts }

\* embedded transactions, semicolon-delimited: without moves as the encoder
\* writes it, without moves and without the last delimiter, with one move, broken
EmbeddedTx0 == Joined(<< << "0" >>, TagTransaction, Zm9v, Sig88, KeyA, << >> >>, ";")
EmbeddedTx0Bare == Joined(<< << "0" >>, TagTransaction, Zm9v, Sig88, KeyA >>, ";")
EmbeddedTx1 == Joined(<< << "1" >>, TagTransaction, Zm9v, Sig88, KeyA, GoodMove1 >>, ";")
EmbeddedTxBad == Joined(<< << "2" >>, TagTransaction, Zm9v, TxtSig, KeyA, GoodMove1 >>, ";")

EmbeddedTxLists ==
    { << >>, << << >> >>, << EmbeddedTx0 >>, << EmbeddedTx0Bare >>, << EmbeddedTx1 >>,
      << EmbeddedTx1, EmbeddedTx0Bare >>, << EmbeddedTx1, EmbeddedTx1 >>,
      << EmbeddedTx1, EmbeddedTxBad >>, << EmbeddedTxBad, EmbeddedTx0 >> }

NonceTexts == { << "1", "3", "3", "7" >>, << "-", "2", ".", "5" >>, << "a", "b", "c" >> }
MinerTexts == { KeyA, GenesisAccount, TxtSender, KeyLong }

NewBlockTexts ==
    { Joined(<< tag, n, m >> \o ts, ":") :
        tag \in TagTexts, n \in NonceTexts, m \in MinerTexts, ts \in EmbeddedTxLists }

BlockTexts ==
    { n \o << ":" >> \o b : n \in SerialTexts, b \in NewBlockTexts }

\* "block:1337:<116-char-account>" and "0:block:1337:<116-char-account>"
NewBlockNoTx == Joined(<< TagBlock, << "1", "3", "3", "7" >>, KeyA >>, ":")
BlockNoTx == Joined(<< << "0" >>, TagBlock, << "1", "3", "3", "7" >>, KeyA >>, ":")

MessageTexts ==
    { NewBlockNoTx, BlockNoTx, << >>, << "x" >>, << "f", "o", "o", ":", "b", "a", "r" >>,
      Joined(<< TagBlock, << "1", "3", "3", "7" >>, KeyA, EmbeddedTx1 >>, ":"),
      Joined(<< << "0" >>, TagBlock, << "1", "3", "3", "7" >>, KeyA, EmbeddedTx1 >>, ":"),
      Joined(<< << "0" >>, TagBlock, << "1", "3", "3", "7" >>, KeyA, EmbeddedTx1, EmbeddedTx1 >>, ":"),
      Joined(<< TagTransaction, Zm9v, Sig88, KeyA >>, ":"),
      Joined(<< TagTransaction, Zm9v, Sig88, KeyA, GoodMove1 >>, ":"),
      Joined(<< << "0" >>, TagTransaction, Zm9v, Sig88, KeyA >>, ":"),
      Joined(<< << "0" >>, TagTransaction, Zm9v, Sig88, KeyA, GoodMove1 >>, ":"),
      Joined(<< TagTransaction, TxtShort >>, ":"),
      Joined(<< TagTransaction, NotBase64, TxtSig, TxtSender >>, ":") }

F64Samples ==
    { Fin(FALSE, << "1" >>, << >>), Fin(FALSE, << "2" >>, << >>), Fin(FALSE, << >>, << "5" >>),
      Fin(FALSE, << "1", "3", "3", "7" >>, << >>), Fin(FALSE, << >>, << "0", "0", "1" >>),
      Fin(FALSE, << "1", "2", "3", "4", "5", "6" >>, << "7", "8", "9" >>), F64_MAX, INFINITY, Inf(TRUE), NaN,
      Fin(FALSE, << >>, << >>), Fin(TRUE, << "1" >>, << >>) }

SampleMoves == { Move(k, a) : k \in { KeyA, KeyB, KeyLong, << "a" >> }, a \in F64Samples }

MoveLists ==
    SeqsUpTo({ Move(KeyB, Fin(FALSE, << "1" >>, << >>)), Move(KeyA, Fin(FALSE, << >>, << "5" >>)) },
             MaxMoves)

SampleNewTransactions == { NewTransaction(Zm9v, Sig88, KeyA, ms) : ms \in MoveLists }

SampleTransactions ==
    { Transaction(n, Zm9v, Sig88, KeyA, ms) : n \in { << "0" >>, << "7" >> }, ms \in MoveLists }

TxLists ==
    SeqsUpTo({ Transaction(<< "0" >>, Zm9v, Sig88, KeyA, << >>),
               Transaction(<< "1" >>, Zm9v, Sig88, KeyA, << Move(KeyB, Fin(FALSE, << "1" >>, << >>)) >>) },
             MaxTxs)

SampleNewBlocks ==
    { NewBlock(ts, n, m) :
        ts \in TxLists, n \in { Fin(FALSE, << "1", "3", "3", "7" >>, << >>), Fin(TRUE, << "2" >>, << "5" >>) },
        m \in { KeyA, GenesisAccount } }

SampleBlocks ==
    { Block(s, b.transactions, b.nonce, b.miner_account) :
        s \in { << "0" >>, << "3" >> }, b \in SampleNewBlocks }

\* request bodies and paths sent to a serving process
Bodies ==
    { Joined(<< TagTransaction, Zm9v, Sig88, KeyA >>, ":"),
      Joined(<< TagTransaction, Zm9v, Sig88, KeyA, GoodMove1 >>, ":"),
      Joined(<< TagBlock, << "1", "3", "3", "7" >>, KeyA, EmbeddedTx1 >>, ":"),
      Joined(<< TagTransaction, Zm9v, Sig88, KeyA, GoodMove1 >>, ":") \o << "\n" >> \o GoodMove2,
      NewBlockNoTx, BlockNoTx,
      Joined(<< TagTransaction, TxtShort >>, ":"),
      Joined(<< TagTransaction, NotBase64, TxtSig, TxtSender >>, ":"),
      Joined(<< TagTransaction, Zm9v, Sig88, TxtSender >>, ":") }

Paths == { << "/", "0" >>, << "/", "1" >>, << "/" >>, << "/", "x" >>, << "/", "-", "1" >> }

---------------------------------------------------------------------------
(* The relay as a state machine *)

NoResponse == Response(0, << >>, "", "", << >>)

\* largest number of requests the server processes are sent
MaxCalls == 2

\* the calls of Svc::call, numbered in the order the requests arrive
Calls == 1..MaxCalls

\* a call of Svc::call and the locals of its future: the process serving it,
\* the method, the body or path, the encoded message (POST), the id (GET),
\* what lrange returned (GET) and the response once there is one
Call(at, server, method, input, message, id, got, response) ==
    [pc |-> at, server |-> server, method |-> method, input |-> input,
     message |-> message, id |-> id, got |-> got, response |-> response]

\* a request that has not arrived yet
NoCall == Call("idle", "", "", << >>, << >>, 0, << >>, NoResponse)

Init ==
    /\ canonical_padding \in BOOLEAN
    /\ messages = << >>
    /\ pc = [p \in Servers |-> "down"]
    /\ req = NoRequest
    /\ resp = NoResponse
    /\ op = ""
    /\ arg = << >>
    /\ res = << >>
    /\ migration_messages = [p \in Servers |-> << >>]
    /\ db = [p \in Servers |-> 0]
    /\ calls = [r \in Calls |-> NoCall]

\* main: run_migration_if_needed(&mut con), then http.start(con)
Start(p) ==
    /\ pc[p] = "down"
    /\ messages' = run_migration_if_needed(messages)
    /\ pc' = [pc EXCEPT ![p] = "serving"]
    /\ UNCHANGED << canonical_padding, req, resp, op, arg, res, migration_messages, db, calls >>

\* the process ends (server.await returns or the process is killed)
Stop(p) ==
    /\ pc[p] = "serving"
    /\ pc' = [pc EXCEPT ![p] = "down"]
    /\ UNCHANGED << canonical_padding, messages, req, resp, op, arg, res, migration_messages, db, calls >>

\* Svc::call for a POST request, served by a running process
Post ==
    /\ "serving" \in {pc[p] : p \in Servers}
    /\ \E body \in Bodies, redis_ok \in BOOLEAN :
        \E out \in {PostHandler(messages, body, redis_ok)} :
            /\ Len(out.messages) <= MaxLog
            /\ messages' = out.messages
            /\ req' = Request("POST", body)
            /\ resp' = out.resp
    /\ UNCHANGED << canonical_padding, pc, op, arg, res, migration_messages, db, calls >>

\* Svc::call for a GET request, served by a running process
Get ==
    /\ "serving" \in {pc[p] : p \in Servers}
    /\ \E path \in Paths, redis_ok \in BOOLEAN :
        /\ req' = Request("GET", path)
        /\ resp' = GetHandler(messages, path, redis_ok)
    /\ UNCHANGED << canonical_padding, messages, pc, op, arg, res, migration_messages, db, calls >>

Next ==
    \/ \E p \in Servers : Start(p)
    \/ \E p \in Servers : Stop(p)
    \/ Post
    \/ Get

Spec == Init /\ [][Next]_vars

---------------------------------------------------------------------------
(* The codec functions applied to the texts and records above *)

\* no codec function has been applied yet
Idle == op = ""

\* one application of a codec function to one input
Apply(name, input, output) ==
    /\ op' = name
    /\ arg' = input
    /\ res' = output
    /\ UNCHANGED << canonical_padding, messages, pc, req, resp, migration_messages, db, calls >>

DecodeMove ==
    /\ Idle
    /\ \E s \in MoveTexts : Apply("MoveFromStr", s, MoveFromStr(s))

EncodeMove ==
    /\ Idle
    /\ \E m \in SampleMoves : Apply("MoveToString", m, MoveToString(m))

DecodeTransaction ==
    /\ Idle
    /\ \E s \in TransactionTexts : Apply("TransactionFromStr", s, TransactionFromStr(s))

DecodeNewTransaction ==
    /\ Idle
    /\ \E s \in NewTransactionTexts : Apply("NewTransactionFromStr", s, NewTransactionFromStr(s))

EncodeTransaction ==
    /\ Idle
    /\ \E t \in SampleTransactions : Apply("TransactionToString", t, TransactionToString(t))

EncodeNewTransaction ==
    /\ Idle
    /\ \E t \in SampleNewTransactions : Apply("NewTransactionToString", t, NewTransactionToString(t))

DecodeBlock ==
    /\ Idle
    /\ \E s \in BlockTexts : Apply("BlockFromStr", s, BlockFromStr(s))

DecodeNewBlock ==
    /\ Idle
    /\ \E s \in NewBlockTexts : Apply("NewBlockFromStr", s, NewBlockFromStr(s))

EncodeBlock ==
    /\ Idle
    /\ \E b \in SampleBlocks : Apply("BlockToString", b, BlockToString(b))

EncodeNewBlock ==
    /\ Idle
    /\ \E b \in SampleNewBlocks : Apply("NewBlockToString", b, NewBlockToString(b))

DecodeMessage ==
    /\ Idle
    /\ \E s \in MessageTexts : Apply("MessageFromStr", s, MessageFromStr(s))

DecodeNewMessage ==
    /\ Idle
    /\ \E s \in MessageTexts : Apply("NewMessageFromStr", s, NewMessageFromStr(s))

NextCodec ==
    \/ DecodeMove
    \/ EncodeMove
    \/ DecodeTransaction
    \/ DecodeNewTransaction
    \/ EncodeTransaction
    \/ EncodeNewTransaction
    \/ DecodeBlock
    \/ DecodeNewBlock
    \/ EncodeBlock
    \/ EncodeNewBlock
    \/ DecodeMessage
    \/ DecodeNewMessage

SpecCodec == Init /\ [][NextCodec]_vars


---------------------------------------------------------------------------
(* The processes and the calls of Svc::call step by step: every redis     *)
(* command and every acquisition and release of Session.db is one step.   *)

\* request bodies and paths of the concurrent calls
ConcBodies ==
    { Joined(<< TagTransaction, Zm9v, Sig88, KeyA, GoodMove1 >>, ":"),
      Joined(<< TagTransaction, Zm9v, Sig88, TxtSender >>, ":") }

ConcPaths == { << "/", "0" >>, << "/", "x" >> }

\* run_migration_if_needed, its first command: con.lrange("messages", 0, 1)
MigrationRead(p) ==
    /\ pc[p] = "down"
    /\ migration_messages' = [migration_messages EXCEPT ![p] = lrange(messages, 0, 1)]
    /\ pc' = [pc EXCEPT ![p] = "migrating"]
    /\ UNCHANGED << canonical_padding, messages, req, resp, op, arg, res, db, calls >>

\* run_migration_if_needed from the is_empty test on: con.rpush of the genesis
\* string if the reply was empty; then main goes on to http.start
MigrationPush(p) ==
    /\ pc[p] = "migrating"
    /\ messages' = IF migration_messages[p] = << >>
                   THEN rpush(messages, NewBlockToString(genesis))
                   ELSE messages
    /\ pc' = [pc EXCEPT ![p] = "serving"]
    /\ UNCHANGED << canonical_padding, req, resp, op, arg, res, migration_messages, db, calls >>

\* the POST branch up to the lock: the call after the newline test and the
\* decoding of the body, either answered or waiting at db.lock().await
PostChecked(p, message) ==
    LET Decoded(m) ==
            IF ~m.ok
            THEN Call("done", p, "POST", message, << >>, 0, << >>,
                      mk_error("Error: ", m.msg, m.arg, 400))
            ELSE Call("waiting", p, "POST", message, NewMessageToString(m.val), 0, << >>,
                      NoResponse)
    IN  IF Contains(message, "\n")
        THEN Call("done", p, "POST", message, << >>, 0, << >>,
                  mk_error("", "Error: Message contains newlines", << >>, 400))
        ELSE Decoded(NewMessageFromStr(message))

\* the GET branch answering without taking the lock before its lrange
GetChecked_NoLock(p, path) ==
    LET Parsed(n) ==
            IF ~n.ok
            THEN Call("done", p, "GET", path, << >>, 0, << >>,
                      mk_error("", "Error: Failed to parse id", << >>, 400))
            ELSE IF n.val < 0
            THEN Call("done", p, "GET", path, << >>, 0, << >>,
                      mk_error("", "Error: Id must be positive", << >>, 400))
            ELSE Call("locked", p, "GET", path, << >>, n.val, << >>, NoResponse)
        Last(id) ==
            IF id = << >>
            THEN Call("done", p, "GET", path, << >>, 0, << >>,
                      mk_error("", "Error: Didn't provide an id", << >>, 500))
            ELSE Parsed(ParseIsize(id))
        Segments(parts) == Last(parts[Len(parts)])
    IN  Segments(Split(path, "/"))

\* the GET branch up to the lock: the call after the checks of the id,
\* either answered or waiting at db.lock().await
GetChecked(p, path) ==
    LET Parsed(n) ==
            IF ~n.ok
            THEN Call("done", p, "GET", path, << >>, 0, << >>,
                      mk_error("", "Error: Failed to parse id", << >>, 400))
            ELSE IF n.val < 0
            THEN Call("done", p, "GET", path, << >>, 0, << >>,
                      mk_error("", "Error: Id must be positive", << >>, 400))
            ELSE Call("waiting", p, "GET", path, << >>, n.val, << >>, NoResponse)
        Last(id) ==
            IF id = << >>
            THEN Call("done", p, "GET", path, << >>, 0, << >>,
                      mk_error("", "Error: Didn't provide an id", << >>, 500))
            ELSE Parsed(ParseIsize(id))
        Segments(parts) == Last(parts[Len(parts)])
    IN  Segments(Split(path, "/"))

\* the call the next request to arrive becomes
NextCall == Min({r \in Calls : calls[r].pc = "idle"})

\* a POST request arrives at a serving process: Svc::call up to db.lock().await
PostBegin ==
    /\ \E r \in Calls : calls[r].pc = "idle"
    /\ \E p \in {s \in Servers : pc[s] = "serving"}, body \in ConcBodies :
        calls' = [calls EXCEPT ![NextCall] = PostChecked(p, body)]
    /\ UNCHANGED << canonical_padding, messages, pc, req, resp, op, arg, res,
                    migration_messages, db >>

\* a GET request arrives at a serving process: Svc::call up to db.lock().await
GetBegin ==
    /\ \E r \in Calls : calls[r].pc = "idle"
    /\ \E p \in {s \in Servers : pc[s] = "serving"}, path \in ConcPaths :
        calls' = [calls EXCEPT ![NextCall] = GetChecked(p, path)]
    /\ UNCHANGED << canonical_padding, messages, pc, req, resp, op, arg, res,
                    migration_messages, db >>

\* cloned_session.db.lock().await resolves: no guard of this process's mutex
\* is alive, and the call now holds one
Lock(r) ==
    /\ calls[r].pc = "waiting"
    /\ db[calls[r].server] = 0
    /\ db' = [db EXCEPT ![calls[r].server] = r]
    /\ calls' = [calls EXCEPT ![r].pc = "locked"]
    /\ UNCHANGED << canonical_padding, messages, pc, req, resp, op, arg, res,
                    migration_messages >>

\* POST, under the guard: the RPUSH pipeline; its failure is answered with 500
Push(r) ==
    /\ calls[r].pc = "locked"
    /\ calls[r].method = "POST"
    /\ \E redis_ok \in BOOLEAN :
        /\ messages' = IF redis_ok THEN rpush(messages, calls[r].message) ELSE messages
        /\ calls' = [calls EXCEPT
                        ![r].pc = "accessed",
                        ![r].response =
                            IF redis_ok THEN NoResponse
                            ELSE mk_error("", "Failed to push message to redis", << >>, 500)]
    /\ UNCHANGED << canonical_padding, pc, req, resp, op, arg, res, migration_messages, db >>

\* GET, under the guard: redis.lrange("messages", id, id + 200); its failure
\* is answered with 500
Range(r) ==
    /\ calls[r].pc = "locked"
    /\ calls[r].method = "GET"
    /\ \E redis_ok \in BOOLEAN :
        calls' = [calls EXCEPT
                     ![r].pc = "accessed",
                     ![r].got =
                         IF redis_ok
                         THEN lrange(messages, calls[r].id, calls[r].id + PageSpan)
                         ELSE << >>,
                     ![r].response =
                         IF redis_ok THEN NoResponse
                         ELSE mk_error("", "Failed to get messages from redis", << >>, 500)]
    /\ UNCHANGED << canonical_padding, messages, pc, req, resp, op, arg, res,
                    migration_messages, db >>

\* the guard goes out of scope, at the end of its block or at the return of
\* uor_res!: a failed call is answered, a GET renders its lines and is
\* answered, a POST goes to sleep
Unlock(r) ==
    /\ calls[r].pc = "accessed"
    /\ db' = [db EXCEPT ![calls[r].server] = 0]
    /\ calls' = [calls EXCEPT
                    ![r].pc =
                        IF calls[r].response = NoResponse /\ calls[r].method = "POST"
                        THEN "sleeping" ELSE "done",
                    ![r].response =
                        IF calls[r].response = NoResponse /\ calls[r].method = "GET"
                        THEN mk_response(Concat([i \in 1..Len(calls[r].got) |->
                                 Line((i - 1) + calls[r].id, calls[r].got[i])]))
                        ELSE calls[r].response]
    /\ UNCHANGED << canonical_padding, messages, pc, req, resp, op, arg, res,
                    migration_messages >>

\* POST: tokio::time::sleep(2000 ms) is over, mk_response(String::new())
Wake(r) ==
    /\ calls[r].pc = "sleeping"
    /\ calls' = [calls EXCEPT ![r].pc = "done", ![r].response = mk_response(<< >>)]
    /\ UNCHANGED << canonical_padding, messages, pc, req, resp, op, arg, res,
                    migration_messages, db >>

NextConc ==
    \/ \E p \in Servers : MigrationRead(p)
    \/ \E p \in Servers : MigrationPush(p)
    \/ PostBegin
    \/ GetBegin
    \/ \E r \in Calls : Lock(r)
    \/ \E r \in Calls : Push(r)
    \/ \E r \in Calls : Range(r)
    \/ \E r \in Calls : Unlock(r)
    \/ \E r \in Calls : Wake(r)

SpecConc == Init /\ [][NextConc]_vars
---------------------------------------------------------------------------
(* Properties of the codec, checked under SpecCodec *)

\* a public key field that passes its checks
WellFormedKey(k) == B64Decodes(k) /\ Len(k) = KeyLen

\* the transaction "0:transaction:Zm9v:<88-char-sig>:<116-char-sender>", without moves
TxWithoutMoves == Transaction(<< "0" >>, Zm9v, Sig88, KeyA, << >>)

\* C1: a Block that contains the transaction without moves survives
\* Block-encode then Block-decode, the decoded Block holding that transaction
\* with the same serial, unique_string, sig, sender and empty move list.
C1_BlockNestingRoundTrip ==
    (op = "BlockToString" /\ \E i \in 1..Len(arg.transactions) : arg.transactions[i] = TxWithoutMoves)
        => LET d == BlockFromStr(res)
           IN  /\ d.ok
               /\ Len(d.val.transactions) = Len(arg.transactions)
               /\ \A i \in 1..Len(arg.transactions) :
                      arg.transactions[i] = TxWithoutMoves => d.val.transactions[i] = TxWithoutMoves

\* C2: "block:1337:<account>" decodes as NewMessage::NewBlock,
\* "0:block:1337:<account>" decodes as Message::Block with serial 0, and each
\* string is rejected by the other decoder.
C2_TagPositionAsymmetry ==
    /\ (op = "NewMessageFromStr" /\ arg = NewBlockNoTx) => (res.ok /\ res.val.tag = "NewBlock")
    /\ (op = "MessageFromStr" /\ arg = BlockNoTx)
           => (res.ok /\ res.val.tag = "Block" /\ res.val.body.serial = << "0" >>)
    /\ (op = "MessageFromStr" /\ arg = NewBlockNoTx) => ~res.ok
    /\ (op = "NewMessageFromStr" /\ arg = BlockNoTx) => ~res.ok

\* the header fields and the encoded moves, joined by single colons
ColonJoined(header, moves) ==
    Joined(header \o [i \in 1..Len(moves) |-> MoveToString(moves[i])], ":")

\* C4: the transaction encoders emit the header fields and the moves joined
\* by single colons with no trailing delimiter, for every number of moves, and
\* the encoding of a record without moves is accepted by the matching decoder.
C4_NoTrailingDelimiter ==
    /\ op = "NewTransactionToString"
           => /\ res = ColonJoined(<< TagTransaction, arg.unique_string, arg.sig, arg.sender >>,
                                   arg.moves)
              /\ arg.moves = << >> => NewTransactionFromStr(res).ok
    /\ op = "TransactionToString"
           => /\ res = ColonJoined(<< arg.serial, TagTransaction, arg.unique_string, arg.sig,
                                      arg.sender >>, arg.moves)
              /\ arg.moves = << >> => TransactionFromStr(res).ok

\* the amount a Move text carries is a finite number above zero
FinitePositive(x) == x.k = "fin" /\ ~F64LeZero(x)

\* C5: a decoded Move has a finite, strictly positive amount; an amount text
\* that is unparsable, <= 0, infinite or not a number is rejected, and every
\* other amount is accepted (the recipient being well formed).
C5_AmountFinitePositive ==
    (op = "MoveFromStr" /\ Len(Split(arg, ",")) = 2)
        => LET a == ParseF64(Split(arg, ",")[2])
           IN  /\ res.ok => FinitePositive(res.val.amount)
               /\ (~a.ok \/ ~FinitePositive(a.val)) => ~res.ok
               /\ (a.ok /\ FinitePositive(a.val) /\ WellFormedKey(Split(arg, ",")[1])) => res.ok

\* The checks of a transaction decoder, numbered in the order the claim
\* gives: 1 part count, 2 serial, 3 tag, 4 unique_string, 5 sig, 6 sender,
\* 7.. the moves left to right. off is 1 for the persisted form (whose
\* fields are shifted by the serial) and 0 for the new form.
CheckFails(f, off, k) ==
    CASE k = 1 -> Len(f) < 4 + off
      [] k = 2 -> off = 1 /\ Len(f) >= 1 /\ ~ParseU64(f[1]).ok
      [] k = 3 -> Len(f) >= 1 + off /\ f[1 + off] # TagTransaction
      [] k = 4 -> Len(f) >= 2 + off /\ (~B64Decodes(f[2 + off]) \/ f[2 + off] = << >>)
      [] k = 5 -> Len(f) >= 3 + off /\ (~B64Decodes(f[3 + off]) \/ Len(f[3 + off]) # SigLen)
      [] k = 6 -> Len(f) >= 4 + off /\ ~WellFormedKey(f[4 + off])
      [] OTHER -> ~MoveFromStr(f[k - 2 + off]).ok

\* the error messages check k may give
CheckErrors(f, off, k) ==
    CASE k = 1 -> { IF off = 1 THEN "Transaction has less than five parts"
                    ELSE "Transaction has less than four parts" }
      [] k = 2 -> { "Serial is not a number" }
      [] k = 3 -> { IF off = 1 THEN "Second part is not transaction"
                    ELSE "First part is not transaction" }
      [] k = 4 -> { "Unique string is not base64", "Unique string is too short" }
      [] k = 5 -> { "Signature is not base64", "Signature has an invalid length" }
      [] k = 6 -> { "Sender public key ({}) is not base64",
                    "Sender public key ({}) is an invalid key" }
      [] OTHER -> { MoveFromStr(f[k - 2 + off]).msg }

FailingChecks(f, off) ==
    {k \in 1..(IF Len(f) > 4 + off THEN Len(f) + 2 - off ELSE 6) : CheckFails(f, off, k)}

FirstFailingWins(text, off, result) ==
    LET f == Split(text, ":")
        failing == FailingChecks(f, off)
    IN  /\ result.ok <=> failing = {}
        /\ ~result.ok => (result.val = << >> /\ result.msg \in CheckErrors(f, off, Min(failing)))

\* C6: the transaction decoders return the error of the first check that
\* fails, in the order part count, serial, tag, unique_string, sig, sender,
\* moves left to right, and no record when a check fails; "transaction:short"
\* gives the part-count error and "transaction:not-base64!!:sig:sender" the
\* unique_string error.
C6_FirstFailingCheck ==
    /\ op = "TransactionFromStr" => FirstFailingWins(arg, 1, res)
    /\ op = "NewTransactionFromStr" => FirstFailingWins(arg, 0, res)
    /\ (op = "NewTransactionFromStr" /\ arg = Joined(<< TagTransaction, TxtShort >>, ":"))
           => res.msg = "Transaction has less than four parts"
    /\ (op = "NewTransactionFromStr"
            /\ arg = Joined(<< TagTransaction, NotBase64, TxtSig, TxtSender >>, ":"))
           => res.msg = "Unique string is not base64"

\* a persisted text whose serial and tag pass, whose unique_string and sig
\* both fail, and the decoder reported the unique_string
C6_Witness ==
    /\ op = "TransactionFromStr"
    /\ arg = Joined(<< << "7" >>, TagTransaction, NotBase64, TxtSig, TxtSender, BadMoveZero >>, ":")
    /\ ~res.ok
    /\ res.msg = "Unique string is not base64"

\* C9: a Move whose amount is positive infinity is rendered with the largest
\* finite float, never an infinity token, and that text decodes to a Move with
\* the same recipient and the largest finite float as amount.
C9_InfinityBecomesMax ==
    (op = "MoveToString" /\ F64Eq(arg.amount, INFINITY))
        => /\ res = arg.from \o << "," >> \o F64_MAX.ip
           /\ WellFormedKey(arg.from)
                  => LET d == MoveFromStr(res)
                     IN  /\ d.ok
                         /\ d.val.from = arg.from
                         /\ F64Eq(d.val.amount, F64_MAX)
                         /\ ~F64Eq(d.val.amount, INFINITY)

C9_Witness ==
    /\ op = "MoveToString"
    /\ arg = Move(KeyB, INFINITY)
    /\ MoveFromStr(res).ok
    /\ MoveFromStr(res).val.amount = F64_MAX

\* C10: the encoding of a Move with a finite, strictly positive amount and a
\* well-formed recipient decodes to a Move with the same recipient and amount.
C10_MoveRoundTrip ==
    (op = "MoveToString" /\ FinitePositive(arg.amount) /\ WellFormedKey(arg.from))
        => LET d == MoveFromStr(res)
           IN  d.ok /\ d.val.from = arg.from /\ F64Eq(d.val.amount, arg.amount)

C10_Witness ==
    /\ op = "MoveToString"
    /\ arg = Move(KeyB, Fin(FALSE, << "1", "2", "3", "4", "5", "6" >>, << "7", "8", "9" >>))
    /\ MoveFromStr(res).ok
    /\ MoveFromStr(res).val = arg

---------------------------------------------------------------------------
(* Properties of the relay, checked under Spec *)

\* the text GET renders for entry i (0-based), without its line break
RenderedEntry(i) == SubSeq(Line(i, messages[i + 1]), 1, Len(Line(i, messages[i + 1])) - 1)

\* C3: every entry of the log, rendered by GET as "<i>:<entry i>", is
\* accepted by the persisted Message decoder with serial i.
C3_LogReadable ==
    \A i \in 0..(Len(messages) - 1) :
        LET d == MessageFromStr(RenderedEntry(i))
        IN  d.ok /\ d.val.body.serial = FmtNat(i)

\* a step in which some process starts
Starts == \E p \in Servers : pc[p] = "down" /\ pc'[p] = "serving"

\* the encoding of the genesis NewBlock: no transactions, nonce 1337, the
\* hardcoded account
GenesisEntry ==
    NewBlockToString(NewBlock(<< >>, Fin(FALSE, << "1", "3", "3", "7" >>, << >>), GenesisAccount))

\* C7: entry 0 of a non-empty log is the genesis encoding, a start against an
\* empty log appends just it, and a start against a non-empty log leaves the
\* log unchanged.
C7_GenesisOnce ==
    [][ /\ messages' # << >> => messages'[1] = GenesisEntry
        /\ (Starts /\ messages = << >>) => messages' = << GenesisEntry >>
        /\ (Starts /\ messages # << >>) => messages' = messages
        /\ ~Starts => (messages # << >> /\ SubSeq(messages', 1, Len(messages)) = messages)
      ]_vars

\* both processes have started against the store, a POST was accepted, and
\* the log holds the genesis entry once, in front
C7_Witness ==
    /\ \A p \in Servers : pc[p] = "serving"
    /\ Len(messages) = 3
    /\ messages[1] = GenesisEntry
    /\ \A i \in 2..Len(messages) : messages[i] # GenesisEntry

\* a step that serves a POST request
Posts == pc' = pc /\ req'.method = "POST"

\* C8: a POST whose body holds a line break or is rejected by the NewMessage
\* decoder is answered with an error carrying the reason and leaves the log
\* as it was; an accepted POST appends exactly the NewMessage encoding of the
\* decoded body and changes no earlier entry.
C8_RejectedPostKeepsLog ==
    [][ Posts =>
          LET body == req'.payload
              d == NewMessageFromStr(body)
          IN  /\ Contains(body, "\n")
                     => /\ messages' = messages
                        /\ resp'.status = 400
                        /\ resp'.err.msg = "Error: Message contains newlines"
              /\ (~Contains(body, "\n") /\ ~d.ok)
                     => /\ messages' = messages
                        /\ resp'.status = 400
                        /\ resp'.err = [pre |-> "Error: ", msg |-> d.msg, arg |-> d.arg]
              /\ resp'.status # 200 => messages' = messages
              /\ resp'.status = 200
                     => /\ ~Contains(body, "\n") /\ d.ok
                        /\ messages' = Append(messages, NewMessageToString(d.val))
      ]_vars

\* after an accepted POST, a POST the decoder rejects has been answered with
\* the decoder's error and the log still holds the two entries
C8_Witness ==
    /\ req = Request("POST", Joined(<< TagTransaction, Zm9v, Sig88, TxtSender >>, ":"))
    /\ resp.status = 400
    /\ resp.err.msg = "Sender public key ({}) is not base64"
    /\ resp.err.arg = TxtSender
    /\ Len(messages) = 2


---------------------------------------------------------------------------
(* The unit tests of the codec, checked under SpecCodec *)

\* what the tests assert of a decoded transaction: sig "Zm9v", sender "1",
\* one move, from "2", of amount 2.0
AssertedOfTestText(result) ==
    /\ result.ok
    /\ result.val.sig = Zm9v
    /\ result.val.sender = << "1" >>
    /\ Len(result.val.moves) = 1
    /\ result.val.moves[1].from = << "2" >>
    /\ result.val.moves[1].amount = Fin(FALSE, << "2" >>, << >>)

\* C11: decoding "0:transaction:Zm9v:1:2,2.0" as a Transaction and
\* "transaction:Zm9v:1:2,2.0" as a NewTransaction succeeds, with sig the field
\* right after the tag, sender the next field and exactly one move made of the
\* two comma-separated parts of the last field; the persisted one has serial 0.
C11_UnitTestTextsDecode ==
    /\ (op = "TransactionFromStr" /\ arg = TestTransactionText)
           => (AssertedOfTestText(res) /\ res.val.serial = << "0" >>)
    /\ (op = "NewTransactionFromStr" /\ arg = TestNewTransactionText)
           => AssertedOfTestText(res)

---------------------------------------------------------------------------
(* The bootstraps and the handlers step by step (SpecConc)                 *)

\* the positions of the log holding the genesis string
GenesisPositions == { i \in 1..Len(messages) : messages[i] = GenesisEntry }

\* C12: when both server processes have gone through their bootstrap against
\* the store that was empty at the start, whatever the order of the read and
\* append steps of the two bootstraps, the log holds the genesis string
\* exactly once.
C12_GenesisOnceOverlapping ==
    (\A p \in Servers : pc[p] = "serving") => Cardinality(GenesisPositions) = 1

\* the calls of process p that hold a guard of Session.db: between the
\* return of db.lock().await and the drop of the guard
InStoreAccess(p) ==
    { r \in Calls : calls[r].server = p /\ calls[r].pc \in { "locked", "accessed" } }

\* the POST calls whose RPUSH succeeded: they are answered, or will be, with 200
AcceptedPosts ==
    { r \in Calls :
        /\ calls[r].method = "POST"
        /\ \/ calls[r].pc = "accessed" /\ calls[r].response = NoResponse
           \/ calls[r].pc = "sleeping"
           \/ calls[r].pc = "done" /\ calls[r].response.status = 200 }

\* the processes whose bootstrap appended the genesis string
GenesisPushers ==
    { p \in Servers : pc[p] = "serving" /\ migration_messages[p] = << >> }

\* how many entries of the log are the text m
EntriesOf(m) == Cardinality({ i \in 1..Len(messages) : messages[i] = m })

\* how many appends of the text m were made
AppendsOf(m) ==
    Cardinality({ r \in AcceptedPosts : calls[r].message = m })
        + (IF m = GenesisEntry THEN Cardinality(GenesisPushers) ELSE 0)

\* C13: within one server process at most one handler, POST or GET, is in
\* its store-access section (holding the guard of Session.db around its append
\* or range read) at any time, and the log holds one entry for every accepted
\* POST besides the genesis entries of the bootstraps: each text is in the log
\* as many times as it was appended, so n accepted POSTs grow the log by n.
C13_StoreAccessExclusive ==
    /\ \A p \in Servers : Cardinality(InStoreAccess(p)) <= 1
    /\ \A p \in Servers : db[p] # 0 <=> InStoreAccess(p) = { db[p] }
    /\ Len(messages) = Cardinality(AcceptedPosts) + Cardinality(GenesisPushers)
    /\ \A m \in { messages[i] : i \in 1..Len(messages) }
                \cup { calls[r].message : r \in AcceptedPosts } :
           EntriesOf(m) = AppendsOf(m)

\* two POST handlers of one server overlap, both accepted: one has appended
\* and still holds the guard, the other appended before it and is asleep
C13_Witness ==
    \E r1, r2 \in AcceptedPosts :
        /\ calls[r1].server = calls[r2].server
        /\ calls[r1].pc = "accessed"
        /\ calls[r2].pc = "sleeping"
        /\ C13_StoreAccessExclusive

====
